---- MODULE Spec2Model ----
(***************************************************************************)
(* A model of database/prefixdb (src/database/prefixdb/db.go): a Database  *)
(* that partitions one underlying key-value store into sub-databases by    *)
(* prefixing every key with the hash of a label, its batch and its         *)
(* iterator.                                                               *)
(*                                                                         *)
(* Byte strings are sequences of numbers in 0..255.  The underlying store  *)
(* (database.Database, an interface implemented outside prefixdb) is a map *)
(* from byte strings to byte strings whose calls may fail.                 *)
(***************************************************************************)
EXTENDS Integers, Sequences, FiniteSets, TLC

\* ---------------------------------------------------------------- bounds

\* At most this many goroutines call a Database at the same time.
MaxProcs == 2

\* At most this many summaries are accepted in one call.
MaxSummaries == 2

\* At most this many prefixdb.Database values are constructed.
MaxStores == 2

\* At most this many records are appended to a batch's log between resets.
MaxWrites == 2

\* The caller's labels, keys and values.
Labels == { <<1>>, <<2>> }

Keys == { <<1>>, <<1, 2>> }

Values == { <<7>>, <<8>> }

\* ------------------------------------------------------------- constants

defaultBufCap == 512

\* database.MaxExcessCapacityFactor and database.CapacityReductionFactor.
MaxExcessCapacityFactor == 4

CapacityReductionFactor == 2

\* The digest length of the hash, in bytes, and the parameters of the
\* polynomial that stands for it.
HashLen == 2

HashSeed == 7

HashMul == 31

nil == << >>

\* The errors a call can return ("nil": none).
ErrClosed == "ErrClosed"

ErrNotFound == "ErrNotFound"

\* Any other error of the underlying store.
ErrIO == "ErrIO"

\* ------------------------------------------------------------ byte strings

RECURSIVE Pow(_, _)
Pow(b, n) == IF n = 0 THEN 1 ELSE b * Pow(b, n - 1)

Front(s) == SubSeq(s, 1, Len(s) - 1)

HasPrefix(s, p) == Len(s) >= Len(p) /\ SubSeq(s, 1, Len(p)) = p

\* bytes.Compare(a, b) < 0
RECURSIVE BytesLess(_, _)
BytesLess(a, b) ==
    IF b = << >> THEN FALSE
    ELSE IF a = << >> THEN TRUE
    ELSE IF Head(a) # Head(b) THEN Head(a) < Head(b)
    ELSE BytesLess(Tail(a), Tail(b))

\* hashing.ComputeHash256: a digest of fixed length HashLen.  The real
\* function is SHA-256; here a polynomial hash, big-endian in HashLen bytes.
RECURSIVE HashAcc(_)
HashAcc(s) ==
    IF s = << >> THEN HashSeed
    ELSE (HashAcc(Front(s)) * HashMul + s[Len(s)] + 1) % Pow(256, HashLen)

ComputeHash256(s) ==
    [i \in 1..HashLen |-> (HashAcc(s) \div Pow(256, HashLen - i)) % 256]

\* utils.CopyBytes: an independent copy with the same bytes.
CopyBytes(b) == [i \in 1..Len(b) |-> b[i]]

\* copy(dst, src): the first min(len) bytes of dst become those of src.
copy(dst, src) ==
    [i \in 1..Len(dst) |-> IF i <= Len(src) THEN src[i] ELSE dst[i]]

\* copy(dst[off:], src)
copyAt(dst, off, src) ==
    [i \in 1..Len(dst) |->
        IF i > off /\ i - off <= Len(src) THEN src[i - off] ELSE dst[i]]

\* make([]byte, n)
make(n) == [i \in 1..n |-> 0]

\* ------------------------------------------------- the underlying store

\* The store's contents: a function from the keys present to their values.
StoreHas(m, k) == k \in DOMAIN m

StoreGet(m, k) ==
    IF k \in DOMAIN m THEN [val |-> m[k], err |-> "nil"]
    ELSE [val |-> nil, err |-> ErrNotFound]

StorePut(m, k, v) ==
    [x \in (DOMAIN m) \cup {k} |-> IF x = k THEN v ELSE m[x]]

StoreDelete(m, k) == [x \in (DOMAIN m) \ {k} |-> m[x]]

\* One write of a batch or of a log: a put or a delete.
ApplyWrite(m, w) ==
    IF w.delete THEN StoreDelete(m, w.key) ELSE StorePut(m, w.key, w.value)

\* The writes of ws applied in order.
RECURSIVE ApplyWrites(_, _)
ApplyWrites(m, ws) ==
    IF ws = << >> THEN m ELSE ApplyWrites(ApplyWrite(m, Head(ws)), Tail(ws))

EmptyStore == [x \in {} |-> nil]

\* The entries of m whose key starts with prefix and is not below start, in
\* ascending key order: what the store's iterator walks.
StoreScan(m, start, prefix) ==
    LET ks == { k \in DOMAIN m : HasPrefix(k, prefix) /\ ~BytesLess(k, start) }
        RECURSIVE Ordered(_)
        Ordered(S) ==
            IF S = {} THEN << >>
            ELSE LET lo == CHOOSE k \in S : \A o \in S : ~BytesLess(o, k)
                 IN  <<[key |-> lo, value |-> m[lo]]>> \o Ordered(S \ {lo})
    IN  Ordered(ks)

\* ------------------------------------------------------------------ state

VARIABLES
    stores,   \* the Database values constructed so far: dbPrefix, db, bufferPool
    origin,   \* per Database, how it was constructed (history, not program state)
    phys,     \* the contents of the underlying store
    content,  \* per pre-hash label, the key/value map its callers expect
    batch,    \* the batch in use (db = 0: none)
    iter,     \* the iterator in use (db = 0: none)
    last,     \* the last call: its name and the error it returned
    lock,     \* db.lock of the Database that goroutines share
    pc,       \* per goroutine, the call it is in and how far it has got
    vm        \* the proposervm VM: its height index and its core VM

vars == <<stores, origin, phys, content, batch, iter, last, lock, pc, vm>>

Ret(op, err) == [op |-> op, err |-> err]

NoBatch == [db |-> 0, writes |-> << >>, cap |-> 0, inner |-> << >>, issued |-> << >>]

NoIter == [db |-> 0, kind |-> "none", entries |-> << >>, pos |-> 0,
           full |-> FALSE, created |-> EmptyStore]

StoreIds == 1..Len(stores)

Open(i) == stores[i].db # "nil"

\* A panic ends the program.
Panicked == last.err = "panic"

\* The goroutines that call one Database at the same time.
Procs == 1..MaxProcs

\* db.lock, held by nobody: no writer (0), no readers.
Unlocked == [writer |-> 0, readers |-> {}]

\* A goroutine in no call.
Idle == [op |-> "none", at |-> "idle", local |-> "nil"]

\* A VM on which nothing has been called: no core state-sync VM, an empty
\* height index with no write pending, and of the last call of
\* SetSyncableStateSummaries nothing: no argument, no commit, nothing handed
\* to the core VM, nothing returned.
NoVM ==
    [core |-> FALSE, index |-> {}, pending |-> {},
     accepted |-> << >>, parsed |-> 0, indexed |-> 0, committed |-> FALSE,
     handed |-> FALSE, summaries |-> << >>, ret |-> "none"]

\* The state of a program that calls its Databases from one goroutine and has
\* no VM.
Sequential ==
    /\ lock = Unlocked
    /\ pc = [p \in Procs |-> Idle]
    /\ vm = NoVM

\* The step A of a program that does nothing else at the same time.
Alone(A) == A /\ UNCHANGED <<lock, pc, vm>>

\* The same, of a program that has not panicked.
Live(A) == ~Panicked /\ Alone(A)

\* ----------------------------------------------------------- construction

NewNested(prefix, db) ==
    [dbPrefix |-> ComputeHash256(prefix), db |-> db, bufferPool |-> {}]

\* The label New hashes: over a Database (target > 0) the target's dbPrefix
\* followed by prefix, else prefix.
simplePrefix(prefix, target) ==
    IF target > 0
    THEN copyAt(copy(make(Len(stores[target].dbPrefix) + Len(prefix)),
                     stores[target].dbPrefix),
                Len(stores[target].dbPrefix), prefix)
    ELSE prefix

\* New that hashes the given label alone over a Database too.
NewLabelOnly(prefix, target) ==
    IF target > 0
    THEN NewNested(prefix, stores[target].db)
    ELSE NewNested(prefix, "S")

\* New that binds the new Database to the underlying store whatever the
\* state of the Database it is built over.
NewOverStore(prefix, target) ==
    NewNested(simplePrefix(prefix, target), "S")

\* New(prefix, db): target = 0 is the underlying store itself, target > 0 the
\* Database stores[target].
New(prefix, target) ==
    IF target > 0
    THEN NewNested(simplePrefix(prefix, target), stores[target].db)
    ELSE NewNested(prefix, "S")

\* How a Database came to be: the label given, the Database it was built
\* over (0: the underlying store), the label hashed, and the labels the
\* callers gave from the outermost Database inwards.
Origin(prefix, target) ==
    [given |-> prefix, outer |-> target,
     label |-> simplePrefix(prefix, target),
     path |-> IF target > 0 THEN origin[target].path \o prefix ELSE prefix]

NewStore(prefix, target) ==
    /\ Len(stores) < MaxStores
    /\ stores' = Append(stores, New(prefix, target))
    /\ origin' = Append(origin, Origin(prefix, target))
    /\ content' = [l \in (DOMAIN content) \cup {simplePrefix(prefix, target)} |->
                      IF l \in DOMAIN content THEN content[l] ELSE EmptyStore]
    /\ last' = Ret("New", "nil")
    /\ UNCHANGED <<phys, batch, iter>>

\* No Database yet, over an empty store.
Init ==
    /\ stores = << >>
    /\ origin = << >>
    /\ phys = EmptyStore
    /\ content = [l \in {} |-> EmptyStore]
    /\ batch = NoBatch
    /\ iter = NoIter
    /\ last = Ret("none", "nil")
    /\ Sequential

\* Two Databases built over the empty store, the first with the label <<1>>,
\* the second with a label of Labels: the same one or another.
InitTwo ==
    /\ \E l1 \in {<<1>>}, l2 \in Labels :
         /\ stores = <<NewNested(l1, "S"), NewNested(l2, "S")>>
         /\ origin = <<[given |-> l1, outer |-> 0, label |-> l1, path |-> l1],
                       [given |-> l2, outer |-> 0, label |-> l2, path |-> l2]>>
         /\ content = [l \in {l1, l2} |-> EmptyStore]
    /\ phys = EmptyStore
    /\ batch = NoBatch
    /\ iter = NoIter
    /\ last = Ret("New", "nil")
    /\ Sequential

\* One Database built over the empty store with a label of Labels.
InitOne ==
    /\ \E l \in Labels :
         /\ stores = <<NewNested(l, "S")>>
         /\ origin = <<[given |-> l, outer |-> 0, label |-> l, path |-> l]>>
         /\ content = [x \in {l} |-> EmptyStore]
    /\ phys = EmptyStore
    /\ batch = NoBatch
    /\ iter = NoIter
    /\ last = Ret("New", "nil")
    /\ Sequential

\* ------------------------------------------------------------ buffer pool

\* Buffers of the pool: logical length and capacity.  Equal buffers are not
\* told apart, so the pool is the set of the distinct buffers it holds.
PoolNew == [len |-> 0, cap |-> defaultBufCap]

\* bufferPool.Get(): a pooled buffer, removed, or a new one.
PoolGet(pool) ==
    { [buf |-> b, pool |-> pool \ {b}] : b \in pool }
        \cup { [buf |-> PoolNew, pool |-> pool] }

\* bufferPool.Put(prefixedKey[:0]) for a buffer of capacity c.  A pooled
\* buffer equal to the one New makes is what a Get on an empty pool returns
\* as well, so the pool is kept as the set of the buffers that differ from it.
\* bufferPool.Put of the buffer as it is, without the [:0].
PoolPutUntruncated(pool, c) == pool \cup { [len |-> c, cap |-> c] }

PoolPut(pool, c) == (pool \cup { [len |-> 0, cap |-> c] }) \ {PoolNew}

\* The outcomes of bufferPool.Get() on Database i.
Gets(i) == PoolGet(stores[i].bufferPool)

\* prefix without the Database's prefix: the key alone.
prefixKeyOnly(db, key, got) ==
    [key |-> copy(make(Len(key)), key),
     cap |-> got.buf.cap,
     pool |-> got.pool]

\* db.prefix(key), for the outcome got of bufferPool.Get(): the prefixed key,
\* the capacity of the buffer holding it, and the pool afterwards.
prefix(db, key, got) ==
    LET keyLen == Len(db.dbPrefix) + Len(key)
        fits == got.buf.cap >= keyLen
        prefixedKey == copyAt(copy(make(keyLen), db.dbPrefix), Len(db.dbPrefix), key)
    IN  [key |-> prefixedKey,
         cap |-> IF fits THEN got.buf.cap ELSE keyLen,
         pool |-> IF fits THEN got.pool ELSE got.pool \cup {got.buf}]

SetPool(i, pool) == [stores EXCEPT ![i].bufferPool = pool]

\* The underlying store's own outcome of a call: success or an error.
StoreErrs == {"nil", ErrIO}

\* The outcome of a store that does not fail.
NoErr == {"nil"}

\* --------------------------------------------------------- point operations
\* Each call as an operator: what it returns and the state it leaves, for
\* the outcome got of bufferPool.Get() and the outcome uerr of the underlying
\* store's call.  The action of the same name applies it.

HasCall(i, key, got, uerr) ==
    IF ~Open(i)
    THEN [has |-> FALSE, err |-> ErrClosed, pool |-> stores[i].bufferPool]
    ELSE LET p == prefix(stores[i], key, got) IN
         [has |-> (uerr = "nil" /\ StoreHas(phys, p.key)), err |-> uerr,
          pool |-> PoolPut(p.pool, p.cap)]

Has(i, key, uerr) ==
    \E got \in Gets(i) :
      LET r == HasCall(i, key, got, uerr) IN
      /\ stores' = SetPool(i, r.pool)
      /\ last' = Ret("Has", r.err)
      /\ UNCHANGED <<origin, phys, content, batch, iter>>

\* Get that reports a failed read as a missing key.
GetCallAsNotFound(i, key, got, uerr) ==
    IF ~Open(i)
    THEN [val |-> nil, err |-> ErrClosed, pool |-> stores[i].bufferPool]
    ELSE LET p == prefix(stores[i], key, got)
             r == IF uerr = "nil" THEN StoreGet(phys, p.key)
                  ELSE [val |-> nil, err |-> ErrNotFound]
         IN  [val |-> r.val, err |-> r.err, pool |-> PoolPut(p.pool, p.cap)]

GetCall(i, key, got, uerr) ==
    IF ~Open(i)
    THEN [val |-> nil, err |-> ErrClosed, pool |-> stores[i].bufferPool]
    ELSE LET p == prefix(stores[i], key, got)
             r == IF uerr = "nil" THEN StoreGet(phys, p.key)
                  ELSE [val |-> nil, err |-> uerr]
         IN  [val |-> r.val, err |-> r.err, pool |-> PoolPut(p.pool, p.cap)]

Get(i, key, uerr) ==
    \E got \in Gets(i) :
      LET r == GetCall(i, key, got, uerr) IN
      /\ stores' = SetPool(i, r.pool)
      /\ last' = Ret("Get", r.err)
      /\ UNCHANGED <<origin, phys, content, batch, iter>>

\* Put that hands the store the caller's key instead of the prefixed one.
PutCallUnprefixed(i, key, value, got, uerr) ==
    IF ~Open(i)
    THEN [err |-> ErrClosed, pool |-> stores[i].bufferPool, phys |-> phys]
    ELSE LET p == prefix(stores[i], key, got) IN
         [err |-> uerr, pool |-> PoolPut(p.pool, p.cap),
          phys |-> IF uerr = "nil" THEN StorePut(phys, key, value) ELSE phys]


\* Put that delegates without testing db.db.
PutCallUntested(i, key, value, got, uerr) ==
    LET p == prefix(stores[i], key, got) IN
    [err |-> uerr, pool |-> PoolPut(p.pool, p.cap),
     phys |-> IF uerr = "nil" THEN StorePut(phys, p.key, value) ELSE phys]

PutCall(i, key, value, got, uerr) ==
    IF ~Open(i)
    THEN [err |-> ErrClosed, pool |-> stores[i].bufferPool, phys |-> phys]
    ELSE LET p == prefix(stores[i], key, got) IN
         [err |-> uerr, pool |-> PoolPut(p.pool, p.cap),
          phys |-> IF uerr = "nil" THEN StorePut(phys, p.key, value) ELSE phys]

Put(i, key, value, uerr) ==
    \E got \in Gets(i) :
      LET r == PutCall(i, key, value, got, uerr) IN
      /\ stores' = SetPool(i, r.pool)
      /\ phys' = r.phys
      /\ content' = IF r.err = "nil"
                    THEN [content EXCEPT ![origin[i].label] = StorePut(@, key, value)]
                    ELSE content
      /\ last' = Ret("Put", r.err)
      /\ UNCHANGED <<origin, batch, iter>>

DeleteCall(i, key, got, uerr) ==
    IF ~Open(i)
    THEN [err |-> ErrClosed, pool |-> stores[i].bufferPool, phys |-> phys]
    ELSE LET p == prefix(stores[i], key, got) IN
         [err |-> uerr, pool |-> PoolPut(p.pool, p.cap),
          phys |-> IF uerr = "nil" THEN StoreDelete(phys, p.key) ELSE phys]

Delete(i, key, uerr) ==
    \E got \in Gets(i) :
      LET r == DeleteCall(i, key, got, uerr) IN
      /\ stores' = SetPool(i, r.pool)
      /\ phys' = r.phys
      /\ content' = IF r.err = "nil"
                    THEN [content EXCEPT ![origin[i].label] = StoreDelete(@, key)]
                    ELSE content
      /\ last' = Ret("Delete", r.err)
      /\ UNCHANGED <<origin, batch, iter>>

StatCall(i, uerr) == IF ~Open(i) THEN [err |-> ErrClosed] ELSE [err |-> uerr]

Stat(i, uerr) ==
    /\ last' = Ret("Stat", StatCall(i, uerr).err)
    /\ UNCHANGED <<stores, origin, phys, content, batch, iter>>

\* Compact(start, limit): both bounds are prefixed, first start, then limit;
\* neither buffer goes back to the pool.
CompactCall(i, start, limit, got1, uerr) ==
    IF ~Open(i)
    THEN { [err |-> ErrClosed, pool |-> stores[i].bufferPool] }
    ELSE LET p1 == prefix(stores[i], start, got1) IN
         { [err |-> uerr, pool |-> prefix(stores[i], limit, got2).pool] :
               got2 \in PoolGet(p1.pool) }

Compact(i, start, limit, uerr) ==
    \E got1 \in Gets(i) :
      \E r \in CompactCall(i, start, limit, got1, uerr) :
        /\ stores' = SetPool(i, r.pool)
        /\ last' = Ret("Compact", r.err)
        /\ UNCHANGED <<origin, phys, content, batch, iter>>

\* Close that succeeds on a closed Database too.
CloseCallIdempotent(i) == [err |-> "nil", db |-> "nil", closesInner |-> FALSE]

\* Close that closes the underlying store as well.
CloseCallClosesInner(i) ==
    IF ~Open(i) THEN [err |-> ErrClosed, db |-> stores[i].db, closesInner |-> FALSE]
    ELSE [err |-> "nil", db |-> "nil", closesInner |-> TRUE]

\* Close: the closed error, or db.db set to nil.  closesInner tells whether
\* Close is called on the underlying store: it is not.
CloseCall(i) ==
    IF ~Open(i) THEN [err |-> ErrClosed, db |-> stores[i].db, closesInner |-> FALSE]
    ELSE [err |-> "nil", db |-> "nil", closesInner |-> FALSE]

Close(i) ==
    /\ stores' = [stores EXCEPT ![i].db = CloseCall(i).db]
    /\ last' = Ret("Close", CloseCall(i).err)
    /\ UNCHANGED <<origin, phys, content, batch, iter>>

\* ------------------------------------------------------------------ batch

\* A record of the log b.writes.
keyValue(key, value, delete) == [key |-> key, value |-> value, delete |-> delete]

\* cap(append(s, x)) for a slice of length len and capacity cap: a full slice
\* grows to twice its capacity.
AppendCap(len, cap) ==
    IF len < cap THEN cap ELSE IF cap = 0 THEN 1 ELSE 2 * cap

\* NewBatch reads db.db without the lock and calls NewBatch on it: on a closed
\* Database db.db is nil and the call panics.
NewBatchCall(i) ==
    IF ~Open(i) THEN [err |-> "panic", batch |-> batch]
    ELSE [err |-> "nil", batch |-> [NoBatch EXCEPT !.db = i]]

NewBatch(i) ==
    /\ batch' = NewBatchCall(i).batch
    /\ last' = Ret("NewBatch", NewBatchCall(i).err)
    /\ UNCHANGED <<stores, origin, phys, content, iter>>

\* batch.Put that logs the prefixed key.
BatchPutCallLogsPrefixed(b, key, value, got) ==
    LET p == prefix(stores[b.db], key, got) IN
    [batch |-> [b EXCEPT
                   !.writes = Append(@, keyValue(p.key, CopyBytes(value), FALSE)),
                   !.cap = AppendCap(Len(b.writes), @),
                   !.inner = Append(@, keyValue(p.key, value, FALSE))],
     pool |-> PoolPut(p.pool, p.cap), err |-> "nil"]

\* batch.Put(key, value): the record appended to the log, the prefixed Put on
\* the underlying batch, the buffer back in the pool.
BatchPutCall(b, key, value, got) ==
    LET p == prefix(stores[b.db], key, got) IN
    [batch |-> [b EXCEPT
                   !.writes = Append(@, keyValue(CopyBytes(key), CopyBytes(value), FALSE)),
                   !.cap = AppendCap(Len(b.writes), @),
                   !.inner = Append(@, keyValue(p.key, value, FALSE))],
     pool |-> PoolPut(p.pool, p.cap), err |-> "nil"]

BatchPut(key, value) ==
    /\ batch.db # 0
    /\ Len(batch.writes) < MaxWrites
    /\ \E got \in Gets(batch.db) :
         LET r == BatchPutCall(batch, key, value, got) IN
         /\ batch' = [r.batch EXCEPT !.issued = Append(@, keyValue(key, value, FALSE))]
         /\ stores' = SetPool(batch.db, r.pool)
         /\ last' = Ret("BatchPut", r.err)
    /\ UNCHANGED <<origin, phys, content, iter>>

\* batch.Delete that logs the delete and does not hand it to the underlying
\* batch.
BatchDeleteCallLogOnly(b, key, got) ==
    LET p == prefix(stores[b.db], key, got) IN
    [batch |-> [b EXCEPT
                   !.writes = Append(@, keyValue(CopyBytes(key), nil, TRUE)),
                   !.cap = AppendCap(Len(b.writes), @)],
     pool |-> PoolPut(p.pool, p.cap), err |-> "nil"]

\* batch.Delete(key): as Put, a delete record without a value.
BatchDeleteCall(b, key, got) ==
    LET p == prefix(stores[b.db], key, got) IN
    [batch |-> [b EXCEPT
                   !.writes = Append(@, keyValue(CopyBytes(key), nil, TRUE)),
                   !.cap = AppendCap(Len(b.writes), @),
                   !.inner = Append(@, keyValue(p.key, nil, TRUE))],
     pool |-> PoolPut(p.pool, p.cap), err |-> "nil"]

BatchDelete(key) ==
    /\ batch.db # 0
    /\ Len(batch.writes) < MaxWrites
    /\ \E got \in Gets(batch.db) :
         LET r == BatchDeleteCall(batch, key, got) IN
         /\ batch' = [r.batch EXCEPT !.issued = Append(@, keyValue(key, nil, TRUE))]
         /\ stores' = SetPool(batch.db, r.pool)
         /\ last' = Ret("BatchDelete", r.err)
    /\ UNCHANGED <<origin, phys, content, iter>>

\* batch.Write that does not look at the Database's state.
WriteCallUnchecked(b, uerr) ==
    [err |-> uerr, commit |-> TRUE,
     phys |-> IF uerr = "nil" THEN ApplyWrites(phys, b.inner) ELSE phys]

\* batch.Write: under the lock, the closed error, or the underlying batch's
\* Write, which applies the accumulated writes or fails.  commit tells
\* whether the underlying batch's Write was called.
WriteCall(b, uerr) ==
    IF ~Open(b.db)
    THEN [err |-> ErrClosed, commit |-> FALSE, phys |-> phys]
    ELSE [err |-> uerr, commit |-> TRUE,
          phys |-> IF uerr = "nil" THEN ApplyWrites(phys, b.inner) ELSE phys]

BatchWrite(uerr) ==
    /\ batch.db # 0
    /\ LET r == WriteCall(batch, uerr) IN
       /\ phys' = r.phys
       /\ content' = IF r.err = "nil"
                     THEN [content EXCEPT ![origin[batch.db].label] =
                              ApplyWrites(@, batch.issued)]
                     ELSE content
       /\ last' = Ret("Write", r.err)
    /\ UNCHANGED <<stores, origin, batch, iter>>

\* batch.Reset that leaves the underlying batch as it is.
ResetKeepsInner(b) ==
    [b EXCEPT
        !.cap = IF b.cap > Len(b.writes) * MaxExcessCapacityFactor
                THEN b.cap \div CapacityReductionFactor
                ELSE b.cap,
        !.writes = << >>]

\* batch.Reset: the log emptied (a smaller array when the capacity is in
\* excess) and the underlying batch reset.
Reset(b) ==
    [b EXCEPT
        !.cap = IF b.cap > Len(b.writes) * MaxExcessCapacityFactor
                THEN b.cap \div CapacityReductionFactor
                ELSE b.cap,
        !.writes = << >>,
        !.inner = << >>]

BatchReset ==
    /\ batch.db # 0
    /\ batch' = [Reset(batch) EXCEPT !.issued = << >>]
    /\ last' = Ret("Reset", "nil")
    /\ UNCHANGED <<stores, origin, phys, content, iter>>

\* A database.KeyValueWriter: the map it writes, the calls it has received,
\* and the call (failAt, 0: none) it rejects.
Writer(failAt) ==
    [store |-> EmptyStore, calls |-> << >>, failAt |-> failAt, err |-> "nil"]

WriterCall(w, kv) ==
    IF Len(w.calls) + 1 = w.failAt
    THEN [w EXCEPT !.calls = Append(@, kv), !.err = ErrIO]
    ELSE [w EXCEPT !.calls = Append(@, kv), !.store = ApplyWrite(@, kv)]

\* batch.Replay that goes on after a failed write.
RECURSIVE ReplayPastErrors(_, _)
ReplayPastErrors(writes, w) ==
    IF writes = << >> THEN w
    ELSE LET keyvalue == Head(writes)
             w1 == IF keyvalue.delete
                   THEN WriterCall(w, keyValue(keyvalue.key, nil, TRUE))
                   ELSE WriterCall(w, keyValue(keyvalue.key, keyvalue.value, FALSE))
         IN  ReplayPastErrors(Tail(writes), w1)

\* batch.Replay(w): the log's records, each a Delete or a Put on w, up to
\* the first error.
RECURSIVE Replay(_, _)
Replay(writes, w) ==
    IF writes = << >> THEN w
    ELSE LET keyvalue == Head(writes)
             w1 == IF keyvalue.delete
                   THEN WriterCall(w, keyValue(keyvalue.key, nil, TRUE))
                   ELSE WriterCall(w, keyValue(keyvalue.key, keyvalue.value, FALSE))
         IN  IF w1.err # "nil" THEN w1 ELSE Replay(Tail(writes), w1)

BatchReplay(failAt) ==
    /\ batch.db # 0
    /\ last' = Ret("Replay", Replay(batch.writes, Writer(failAt)).err)
    /\ UNCHANGED <<stores, origin, phys, content, batch, iter>>

\* --------------------------------------------------------------- iterator

\* NewIteratorWithStartAndPrefix: on a closed Database a nodb.Iterator with
\* the closed error; else the underlying iterator over the prefixed bounds.
\* The two prefixed bounds are not put back in the pool.
NewIteratorCall(i, start, pre, got1) ==
    IF ~Open(i)
    THEN { [iter |-> [NoIter EXCEPT !.db = i, !.kind = "nodb"],
            pool |-> stores[i].bufferPool] }
    ELSE LET p1 == prefix(stores[i], start, got1) IN
         { [iter |-> [NoIter EXCEPT
                         !.db = i, !.kind = "live",
                         !.entries = StoreScan(phys, p1.key,
                                               prefix(stores[i], pre, got2).key)],
            pool |-> prefix(stores[i], pre, got2).pool] :
               got2 \in PoolGet(p1.pool) }

NewIteratorWithStartAndPrefix(i, start, pre) ==
    \E got1 \in Gets(i) :
      \E r \in NewIteratorCall(i, start, pre, got1) :
        /\ iter' = [r.iter EXCEPT
                       !.full = (start = nil /\ pre = nil),
                       !.created = content[origin[i].label]]
        /\ stores' = SetPool(i, r.pool)
        /\ last' = Ret("NewIterator", "nil")
        /\ UNCHANGED <<origin, phys, content, batch>>

\* The underlying iterator's Key and Value at its position.
InnerValid(it) == it.pos >= 1 /\ it.pos <= Len(it.entries)

InnerKey(it) == IF InnerValid(it) THEN it.entries[it.pos].key ELSE nil

InnerValue(it) == IF InnerValid(it) THEN it.entries[it.pos].value ELSE nil

\* Key that returns the inner iterator's key as it is.
KeyUnstripped(it) == InnerKey(it)

\* iterator.Key: the inner iterator's key without its first len(dbPrefix)
\* bytes, or as it is when it is shorter than that.
Key(it) ==
    LET key == InnerKey(it)
        prefixLen == Len(stores[it.db].dbPrefix)
    IN  IF Len(key) >= prefixLen THEN SubSeq(key, prefixLen + 1, Len(key)) ELSE key

\* The underlying iterator's Error: none.
InnerError(it) == "nil"

\* Error: a nodb.Iterator returns the error it was made with; iterator does
\* not define Error, so a live one returns the embedded iterator's.
IterError(it) == IF it.kind = "nodb" THEN ErrClosed ELSE InnerError(it)

\* Next is the embedded iterator's: one entry further, false past the last.
IterNext ==
    /\ iter.db # 0
    /\ iter.pos <= Len(iter.entries)
    /\ iter' = [iter EXCEPT !.pos = @ + 1]
    /\ last' = Ret("Next", "nil")
    /\ UNCHANGED <<stores, origin, phys, content, batch>>

\* ------------------------------------------------------------- goroutines
\* Goroutines calling the Database 1 at the same time.  A call that takes
\* db.lock is two steps: Enter takes the lock and tests db.db, Exit makes the
\* delegated call and releases the lock.  Between the two the goroutine is in
\* its window.  NewBatch takes no lock: it loads db.db, then calls NewBatch on
\* what it loaded.

\* The calls that take the read lock and those that take the write lock.
ReadOps == {"Has", "Get", "Stat", "NewIterator"}

WriteOps == {"Put", "Delete", "Compact", "Close", "Write"}

\* RLock and Lock return when no writer holds the lock; Lock, when no reader
\* does either.
CanLock(op) ==
    IF op \in WriteOps THEN lock.writer = 0 /\ lock.readers = {}
    ELSE lock.writer = 0

Locked(p, op) ==
    IF op \in WriteOps THEN [lock EXCEPT !.writer = p]
    ELSE [lock EXCEPT !.readers = @ \cup {p}]

Unlock(p) ==
    [writer |-> IF lock.writer = p THEN 0 ELSE lock.writer,
     readers |-> lock.readers \ {p}]

InWindow(p) == pc[p].at = "window"

\* The call op on the Database 1, as one goroutine makes it.
Call(op) ==
    CASE op = "Has" -> Has(1, <<1>>, "nil")
      [] op = "Get" -> Get(1, <<1>>, "nil")
      [] op = "Stat" -> Stat(1, "nil")
      [] op = "NewIterator" -> NewIteratorWithStartAndPrefix(1, nil, nil)
      [] op = "Put" -> Put(1, <<1>>, <<7>>, "nil")
      [] op = "Delete" -> Delete(1, <<1>>, "nil")
      [] op = "Compact" -> Compact(1, nil, nil, "nil")
      [] op = "Close" -> Close(1)
      [] op = "Write" -> BatchWrite("nil")

\* The goroutine p takes the lock for op.  On an open Database it is then in
\* its window; on a closed one the call returns the closed error at once.
Enter(p, op) ==
    /\ ~Panicked
    /\ pc[p] = Idle
    /\ CanLock(op)
    /\ op = "Write" => batch.db # 0
    /\ IF Open(1)
       THEN /\ lock' = Locked(p, op)
            /\ pc' = [pc EXCEPT ![p] = [op |-> op, at |-> "window",
                                        local |-> stores[1].db]]
            /\ UNCHANGED <<stores, origin, phys, content, batch, iter, last, vm>>
       ELSE /\ Call(op)
            /\ UNCHANGED <<lock, pc, vm>>

\* The goroutine p makes its call and releases the lock.
Exit(p) ==
    /\ ~Panicked
    /\ InWindow(p)
    /\ pc[p].op \in ReadOps \cup WriteOps
    /\ Call(pc[p].op)
    /\ lock' = Unlock(p)
    /\ pc' = [pc EXCEPT ![p] = Idle]
    /\ UNCHANGED vm

\* What an unsynchronized load of db.db can return: the field's value; while
\* a Close is between its test and its return the load races with the store
\* of nil, and it returns the old value, the new one, or a torn one.
Loads ==
    IF \E q \in Procs : InWindow(q) /\ pc[q].op = "Close"
    THEN {stores[1].db, "nil", "torn"}
    ELSE {stores[1].db}

\* NewBatch, first step: db.db is loaded, without the lock.
LoadDB(p) ==
    /\ ~Panicked
    /\ pc[p] = Idle
    /\ \E v \in Loads :
         pc' = [pc EXCEPT ![p] = [op |-> "NewBatch", at |-> "window", local |-> v]]
    /\ UNCHANGED <<stores, origin, phys, content, batch, iter, last, lock, vm>>

\* NewBatch on the value local loaded from db.db: a batch over the
\* underlying store's, or a panic on a nil or torn interface value.
NewBatchOn(i, local) ==
    IF local = "S" THEN [err |-> "nil", batch |-> [NoBatch EXCEPT !.db = i]]
    ELSE [err |-> "panic", batch |-> batch]

\* NewBatch, second step: the call on what was loaded.
CallNewBatch(p) ==
    /\ ~Panicked
    /\ InWindow(p)
    /\ pc[p].op = "NewBatch"
    /\ batch' = NewBatchOn(1, pc[p].local).batch
    /\ last' = Ret("NewBatch", NewBatchOn(1, pc[p].local).err)
    /\ pc' = [pc EXCEPT ![p] = Idle]
    /\ UNCHANGED <<stores, origin, phys, content, iter, lock, vm>>

\* ---------------------------------------------------------- proposer VM
\* VM.SetSyncableStateSummaries.  A summary is its height (its Key) and what
\* its bytes are: a proposer summary around a core summary, a proposer
\* summary around bytes the core VM rejects, or no proposer summary.

ErrStateSyncableVMNotImplemented == "ErrStateSyncableVMNotImplemented"

ErrParse == "ErrParse"

ErrCoreParse == "ErrCoreParse"

ErrIndex == "ErrIndex"

ErrCommit == "ErrCommit"

ErrCoreSet == "ErrCoreSet"

Heights == 1..2

Summaries == [key : Heights, bytes : {"good", "badCore", "bad"}]

RECURSIVE SeqsUpTo(_, _)
SeqsUpTo(S, n) ==
    IF n = 0 THEN { << >> }
    ELSE LET shorter == SeqsUpTo(S, n - 1) IN
         shorter \cup { Append(s, x) : s \in { t \in shorter : Len(t) = n - 1 }, x \in S }

\* The arguments of SetSyncableStateSummaries.
Accepted == SeqsUpTo(Summaries, MaxSummaries)

\* summary.Parse(s.Bytes()) and coreStateSyncVM.ParseStateSummary of the
\* core bytes of a parsed summary.
Parse(s) == IF s.bytes = "bad" THEN ErrParse ELSE "nil"

ParseStateSummary(s) == IF s.bytes = "badCore" THEN ErrCoreParse ELSE "nil"

\* fmt.Errorf("could not parse coreSummaryContent due to: %w", err)
Errorf(err) == <<"could not parse coreSummaryContent due to", err>>

\* The loop over accepted from the n-th summary on, in a run where the
\* failAt-th call of updateHeightIndex fails (0: none does): the error it
\* returns with, the core summaries collected, the heights written to the
\* index, and how many summaries were parsed and how many indexed.
RECURSIVE Loop(_, _, _, _, _)
Loop(accepted, n, failAt, coreSummaries, pending) ==
    IF n > Len(accepted)
    THEN [err |-> "nil", coreSummaries |-> coreSummaries, pending |-> pending,
          parsed |-> n - 1, indexed |-> n - 1]
    ELSE LET s == accepted[n] IN
         IF Parse(s) # "nil"
         THEN [err |-> Parse(s), coreSummaries |-> coreSummaries,
               pending |-> pending, parsed |-> n - 1, indexed |-> n - 1]
         ELSE IF ParseStateSummary(s) # "nil"
         THEN [err |-> Errorf(ParseStateSummary(s)), coreSummaries |-> coreSummaries,
               pending |-> pending, parsed |-> n - 1, indexed |-> n - 1]
         ELSE IF failAt = n
         THEN [err |-> ErrIndex, coreSummaries |-> Append(coreSummaries, s.key),
               pending |-> pending, parsed |-> n, indexed |-> n - 1]
         ELSE Loop(accepted, n + 1, failAt, Append(coreSummaries, s.key),
                   pending \cup {s.key})

\* SetSyncableStateSummaries(accepted) on the VM v, in a run where the
\* failAt-th updateHeightIndex fails, vm.db.Commit returns commitErr and the
\* core VM's SetSyncableStateSummaries, if called, returns coreErr: the VM
\* afterwards, with what the call returned in ret.
SetSyncableCall(v, accepted, failAt, commitErr, coreErr) ==
    IF ~v.core
    THEN [v EXCEPT !.accepted = accepted, !.parsed = 0, !.indexed = 0,
                   !.committed = FALSE, !.handed = FALSE, !.summaries = << >>,
                   !.ret = ErrStateSyncableVMNotImplemented]
    ELSE LET l == Loop(accepted, 1, failAt, << >>, v.pending)
             w == [v EXCEPT !.accepted = accepted, !.parsed = l.parsed,
                            !.indexed = l.indexed, !.pending = l.pending,
                            !.committed = FALSE, !.handed = FALSE,
                            !.summaries = << >>]
         IN  IF l.err # "nil" THEN [w EXCEPT !.ret = l.err]
             ELSE IF commitErr # "nil" THEN [w EXCEPT !.ret = "nil"]
             ELSE [w EXCEPT !.index = @ \cup l.pending, !.pending = {},
                            !.committed = TRUE, !.handed = TRUE,
                            !.summaries = l.coreSummaries, !.ret = coreErr]

SetSyncableStateSummaries(accepted, failAt, commitErr, coreErr) ==
    /\ vm' = SetSyncableCall(vm, accepted, failAt, commitErr, coreErr)
    /\ last' = Ret("SetSyncableStateSummaries", vm'.ret)
    /\ UNCHANGED <<stores, origin, phys, content, batch, iter, lock, pc>>

\* A VM with or without a core state-sync VM, and no Database.
InitVM ==
    /\ stores = << >>
    /\ origin = << >>
    /\ phys = EmptyStore
    /\ content = [l \in {} |-> EmptyStore]
    /\ batch = NoBatch
    /\ iter = NoIter
    /\ last = Ret("none", "nil")
    /\ lock = Unlocked
    /\ pc = [p \in Procs |-> Idle]
    /\ vm \in { [NoVM EXCEPT !.core = c] : c \in BOOLEAN }

\* --------------------------------------------------------- specifications

\* Scan and compaction bounds.
Ranges == { <<nil, nil>>, << <<1>>, <<1, 2>> >> }

\* The writes of Spec: each key with a value of its own.
KeyValues == { << <<1>>, <<7>> >>, << <<1, 2>>, <<8>> >> }

\* Databases constructed one over another, and their point operations.
Next ==
    \/ \E l \in Labels, t \in 0..Len(stores) : Alone(NewStore(l, t))
    \/ \E i \in StoreIds, k \in Keys, e \in NoErr : Alone(Has(i, k, e))
    \/ \E i \in StoreIds, k \in Keys, e \in NoErr : Alone(Get(i, k, e))
    \/ \E i \in StoreIds, kv \in KeyValues, e \in NoErr : Alone(Put(i, kv[1], kv[2], e))
    \/ \E i \in StoreIds, k \in Keys, e \in NoErr : Alone(Delete(i, k, e))
    \/ \E i \in StoreIds, e \in NoErr : Alone(Stat(i, e))
    \/ \E i \in StoreIds, r \in Ranges, e \in NoErr : Alone(Compact(i, r[1], r[2], e))
    \/ \E i \in StoreIds : Alone(Close(i))

Spec == Init /\ [][Next]_vars

\* One Database over a store that may fail, and a batch on it.
NextBatch ==
    \/ \E i \in StoreIds, k \in Keys, e \in StoreErrs : Live(Has(i, k, e))
    \/ \E i \in StoreIds, k \in Keys, e \in StoreErrs : Live(Get(i, k, e))
    \/ \E i \in StoreIds, k \in Keys, v \in Values, e \in StoreErrs : Live(Put(i, k, v, e))
    \/ \E i \in StoreIds, k \in Keys, e \in StoreErrs : Live(Delete(i, k, e))
    \/ \E i \in StoreIds : Live(Close(i))
    \/ \E i \in StoreIds : Live(NewBatch(i))
    \/ \E k \in Keys, v \in Values : Live(BatchPut(k, v))
    \/ \E k \in Keys : Live(BatchDelete(k))
    \/ \E e \in StoreErrs : Live(BatchWrite(e))
    \/ Live(BatchReset)
    \/ \E n \in 0..MaxWrites : Live(BatchReplay(n))

SpecBatch == InitOne /\ [][NextBatch]_vars

\* Two Databases over one store: point writes and batch writes.
NextTwo ==
    \/ \E i \in StoreIds, k \in Keys, v \in Values, e \in NoErr : Alone(Put(i, k, v, e))
    \/ \E i \in StoreIds, k \in Keys, e \in NoErr : Alone(Delete(i, k, e))
    \/ \E i \in StoreIds : Alone(NewBatch(i))
    \/ \E k \in Keys, v \in Values : Alone(BatchPut(k, v))
    \/ \E k \in Keys : Alone(BatchDelete(k))
    \/ \E e \in NoErr : Alone(BatchWrite(e))

SpecTwo == InitTwo /\ [][NextTwo]_vars

\* Two Databases over one store, and an iterator.
NextIter ==
    \/ \E i \in StoreIds, k \in Keys, v \in Values, e \in NoErr : Alone(Put(i, k, v, e))
    \/ \E i \in StoreIds, k \in Keys, e \in NoErr : Alone(Delete(i, k, e))
    \/ \E i \in StoreIds, r \in Ranges : Alone(NewIteratorWithStartAndPrefix(i, r[1], r[2]))
    \/ Alone(IterNext)

SpecIter == InitTwo /\ [][NextIter]_vars

\* One Database, an iterator on it, and Close.
NextIterClose ==
    \/ \E i \in StoreIds, k \in Keys, v \in Values, e \in NoErr : Alone(Put(i, k, v, e))
    \/ \E i \in StoreIds : Alone(Close(i))
    \/ \E i \in StoreIds, r \in Ranges : Alone(NewIteratorWithStartAndPrefix(i, r[1], r[2]))
    \/ Alone(IterNext)

SpecIterClose == InitOne /\ [][NextIterClose]_vars

\* Keys whose prefixed form is one and two bytes longer than a buffer the
\* pool makes, and the bounds of scans and compactions made with them.
LongKey == [n \in 1..(defaultBufCap - HashLen + 1) |-> 1]

LongerKey == [n \in 1..(defaultBufCap - HashLen + 2) |-> 1]

PoolKeys == { <<1>>, LongKey, LongerKey }

PoolRanges == { <<nil, nil>>, <<LongKey, LongerKey>> }

\* One Database over a store that may fail: the calls that borrow buffers,
\* with keys that fit a pooled buffer and keys that do not.  The store stays
\* empty: its Put fails.
NextPool ==
    \/ \E i \in StoreIds, k \in PoolKeys, e \in NoErr : Alone(Has(i, k, e))
    \/ \E i \in StoreIds : Alone(Get(i, LongKey, ErrIO))
    \/ \E i \in StoreIds : Alone(Put(i, LongKey, <<7>>, ErrIO))
    \/ \E i \in StoreIds, e \in NoErr : Alone(Delete(i, LongerKey, e))
    \/ \E i \in StoreIds, r \in PoolRanges, e \in NoErr : Alone(Compact(i, r[1], r[2], e))
    \/ \E i \in StoreIds, r \in PoolRanges : Alone(NewIteratorWithStartAndPrefix(i, r[1], r[2]))
    \/ \E i \in StoreIds : Alone(NewBatch(i))
    \/ Alone(BatchPut(LongerKey, <<7>>))
    \/ Alone(BatchDelete(LongKey))

SpecPool == InitOne /\ [][NextPool]_vars

\* One Database called by MaxProcs goroutines.
NextConc ==
    \/ \E p \in Procs, op \in ReadOps \cup WriteOps : Enter(p, op)
    \/ \E p \in Procs : Exit(p)
    \/ \E p \in Procs : LoadDB(p)
    \/ \E p \in Procs : CallNewBatch(p)

SpecConc == InitOne /\ [][NextConc]_vars

\* Calls of SetSyncableStateSummaries one after another.
NextVM ==
    \E accepted \in Accepted, failAt \in 0..MaxSummaries,
       commitErr \in {"nil", ErrCommit}, coreErr \in {"nil", ErrCoreSet} :
        SetSyncableStateSummaries(accepted, failAt, commitErr, coreErr)

SpecVM == InitVM /\ [][NextVM]_vars

\* ------------------------------------------------------------- properties

\* The label Database i hashes, and the map its callers expect to read.
Label(i) == origin[i].label

View(i) == content[Label(i)]

\* The hash tells the labels in use apart (it stands for a collision-resistant
\* one), and every digest has the fixed length.
HashInjectiveOnLabels ==
    \A i \in StoreIds, j \in StoreIds :
        /\ Len(stores[i].dbPrefix) = HashLen
        /\ stores[i].dbPrefix = stores[j].dbPrefix => Label(i) = Label(j)

\* C1: with two Databases of distinct labels over one store, a key written
\* only through the first is not reported by Has or returned by Get on the
\* second, and a Delete of it on the second leaves the first's value in place.
C1_PartitionIsolation ==
    \A i \in StoreIds, j \in StoreIds : Label(i) # Label(j) =>
        \A k \in Keys : (k \in DOMAIN View(i) /\ k \notin DOMAIN View(j)) =>
            \A gi \in Gets(i), gj \in Gets(j) :
                /\ ~HasCall(j, k, gj, "nil").has
                /\ GetCall(j, k, gj, "nil").err = ErrNotFound
                /\ GetCall(j, k, gj, "nil").val = nil
                /\ StoreGet(DeleteCall(j, k, gj, "nil").phys,
                            prefix(stores[i], k, gi).key)
                       = [val |-> View(i)[k], err |-> "nil"]

\* C1's case: after a batch Write, a key is held under one label and not
\* under the other, which holds another key.
C1_Witness ==
    /\ last = Ret("Write", "nil")
    /\ Label(1) # Label(2)
    /\ <<1>> \in DOMAIN View(1) /\ <<1>> \notin DOMAIN View(2)
    /\ <<1, 2>> \in DOMAIN View(2)

ClosedReturns(i) ==
    /\ CloseCall(i).err = ErrClosed
    /\ \A e \in StoreErrs : StatCall(i, e).err = ErrClosed
    /\ \A k \in Keys, got \in Gets(i), e \in StoreErrs :
           /\ HasCall(i, k, got, e).err = ErrClosed
           /\ ~HasCall(i, k, got, e).has
           /\ GetCall(i, k, got, e).err = ErrClosed
           /\ DeleteCall(i, k, got, e).err = ErrClosed
           /\ \A v \in Values : PutCall(i, k, v, got, e).err = ErrClosed
    /\ \A r \in Ranges, got \in Gets(i), e \in StoreErrs :
           \A c \in CompactCall(i, r[1], r[2], got, e) : c.err = ErrClosed

\* C4: no step opens a closed Database again, and after every step Close on
\* an open Database succeeds and a closed Database returns the closed error
\* from Has, Get, Put, Delete, Compact, Stat and Close.
C4_ClosedIsPermanent ==
    [][/\ \A i \in StoreIds : ~Open(i) => ~Open(i)'
       /\ \A i \in StoreIds' :
              /\ Open(i)' => CloseCall(i)'.err = "nil"
              /\ ~Open(i)' => ClosedReturns(i)']_vars

\* C4's case: a second Close has returned the closed error on a Database
\* that holds a key.
C4_Witness ==
    \E i \in StoreIds :
        /\ ~Open(i)
        /\ View(i) # EmptyStore
        /\ last = Ret("Close", ErrClosed)

\* C5: NewBatch on a closed Database returns a batch, and Write on that
\* batch returns the closed error.
C5_NewBatchOnClosed ==
    \A i \in StoreIds : ~Open(i) =>
        /\ NewBatchCall(i).err = "nil"
        /\ NewBatchCall(i).batch.db = i
        /\ WriteCall(NewBatchCall(i).batch, "nil").err = ErrClosed

\* The iterator it at position p, and what a scan of it yields: Key() and
\* Value() at each of its entries.
IterAt(it, p) == [it EXCEPT !.pos = p]

Yielded(it) ==
    [p \in 1..Len(it.entries) |-> <<Key(IterAt(it, p)), InnerValue(IterAt(it, p))>>]

\* C6: a full-range iterator over an open Database yields exactly the pairs
\* held through the Database's label when it was made, each once, with the
\* caller's key (the prefix stripped), and none held through another label.
C6_IteratorYieldsView ==
    (iter.kind = "live" /\ iter.full) =>
        /\ { Yielded(iter)[p] : p \in 1..Len(iter.entries) }
               = { <<k, iter.created[k]>> : k \in DOMAIN iter.created }
        /\ Len(iter.entries) = Cardinality(DOMAIN iter.created)

\* C6's case: a full-range iterator has walked two entries while another
\* label of the same store holds other contents.
C6_Witness ==
    /\ last = Ret("Next", "nil")
    /\ iter.kind = "live" /\ iter.full
    /\ iter.pos = 2 /\ Len(iter.entries) = 2
    /\ \E j \in StoreIds :
           /\ Label(j) # Label(iter.db)
           /\ View(j) # EmptyStore
           /\ View(j) # iter.created

\* C7: Replay on a fresh writer that rejects nothing issues the Put and
\* Delete calls recorded since the batch was made or last reset, in their
\* order, with the caller's keys and values, and leaves the writer with what
\* those calls applied directly leave.
C7_ReplayEquivalence ==
    batch.db # 0 =>
        LET w == Replay(batch.writes, Writer(0)) IN
        /\ w.err = "nil"
        /\ w.calls = batch.issued
        /\ w.store = ApplyWrites(EmptyStore, batch.issued)

\* C7's case: a Replay of a log of a put and a delete of the same key.
C7_Witness ==
    /\ last = Ret("Replay", "nil")
    /\ Len(batch.issued) = 2
    /\ ~batch.issued[1].delete /\ batch.issued[2].delete
    /\ batch.issued[1].key = batch.issued[2].key

\* C8: when the writer rejects the n-th call, Replay returns that error, has
\* made no call after the n-th, and the first n-1 recorded writes stay applied.
C8_PartialReplay ==
    batch.db # 0 =>
        \A n \in 1..Len(batch.writes) :
            LET w == Replay(batch.writes, Writer(n)) IN
            /\ w.err = ErrIO
            /\ w.calls = SubSeq(batch.issued, 1, n)
            /\ w.store = ApplyWrites(EmptyStore, SubSeq(batch.issued, 1, n - 1))

\* C8's case: a Replay of a log of two records has returned the writer's error.
C8_Witness ==
    /\ last = Ret("Replay", ErrIO)
    /\ Len(batch.writes) = 2

\* C9: Reset leaves no pending write, whatever the log's length and capacity:
\* a Replay makes no call, a Write leaves the store as it is, and a second
\* Reset leaves the log and the underlying batch empty as well.
C9_ResetEmpties ==
    batch.db # 0 =>
        LET b == Reset(batch) IN
        /\ b.writes = << >>
        /\ Replay(b.writes, Writer(0)).calls = << >>
        /\ \A e \in StoreErrs : WriteCall(b, e).phys = phys
        /\ Reset(b).writes = << >>
        /\ Reset(b).inner = b.inner

\* C9's case: the batch has just been reset and its log had grown before.
C9_Witness ==
    /\ last = Ret("Reset", "nil")
    /\ batch.db # 0 /\ Open(batch.db)
    /\ batch.writes = << >>
    /\ batch.cap = 2

\* C10: Write on a batch whose Database has been closed returns the closed
\* error, does not call the underlying batch's Write, and leaves the store
\* as it is.
C10_WriteOnClosed ==
    (batch.db # 0 /\ ~Open(batch.db)) =>
        \A e \in StoreErrs :
            /\ WriteCall(batch, e).err = ErrClosed
            /\ ~WriteCall(batch, e).commit
            /\ WriteCall(batch, e).phys = phys

\* C10's case: a Write has returned the closed error on a batch with recorded
\* writes.
C10_Witness ==
    /\ last = Ret("Write", ErrClosed)
    /\ batch.db # 0 /\ ~Open(batch.db)
    /\ batch.writes # << >>

\* C11: an iterator made while its Database was open fails once the Database
\* is closed: after a Next on it, it is at no entry (Key and Value yield
\* nothing) and Error is the closed error.
C11_IteratorFailsAfterClose ==
    (iter.kind = "live" /\ ~Open(iter.db) /\ last.op = "Next") =>
        /\ ~InnerValid(iter)
        /\ Key(iter) = nil
        /\ InnerValue(iter) = nil
        /\ IterError(iter) = ErrClosed

Returned(i, key, got, pool) ==
    /\ stores[i].bufferPool \subseteq pool \cup {PoolNew}
    /\ [len |-> 0, cap |-> prefix(stores[i], key, got).cap] \in pool \cup {PoolNew}

\* C13: every call that borrows key buffers has returned them to the pool
\* when it completes, whether the underlying store's call succeeds or fails:
\* Has, Get, Put, Delete, Compact and the iterator construction with their
\* two bounds, batch Put and batch Delete.
C13_NoBufferLeak ==
    \A i \in StoreIds : Open(i) =>
        \A got \in Gets(i), e \in StoreErrs :
            /\ \A k \in PoolKeys :
                   /\ Returned(i, k, got, HasCall(i, k, got, e).pool)
                   /\ Returned(i, k, got, GetCall(i, k, got, e).pool)
                   /\ Returned(i, k, got, PutCall(i, k, <<7>>, got, e).pool)
                   /\ Returned(i, k, got, DeleteCall(i, k, got, e).pool)
                   /\ batch.db = i =>
                          /\ Returned(i, k, got, BatchPutCall(batch, k, <<7>>, got).pool)
                          /\ Returned(i, k, got, BatchDeleteCall(batch, k, got).pool)
            /\ \A r \in PoolRanges :
                   /\ \A c \in CompactCall(i, r[1], r[2], got, e) :
                          Returned(i, r[1], got, c.pool)
                   /\ \A c \in NewIteratorCall(i, r[1], r[2], got) :
                          Returned(i, r[1], got, c.pool)

\* C14: while a goroutine is in the window of a Put, Delete, Compact, Close
\* or batch Write, no other goroutine is in the window of a call that reads
\* db.db, NewBatch among them; two goroutines are in their windows together
\* only when both are readers; and once the Database is closed no goroutine
\* is about to delegate to the underlying store.
C14_LockDiscipline ==
    /\ \A p \in Procs, q \in Procs : (p # q /\ InWindow(p) /\ InWindow(q)) =>
           /\ pc[p].op \notin WriteOps
           /\ pc[p].op \in ReadOps /\ pc[q].op \in ReadOps
    /\ ~Open(1) => \A q \in Procs : ~(InWindow(q) /\ pc[q].local = "S")

\* C15: the Puts and Deletes recorded in a batch on an open Database do not
\* show through Has and Get before Write; a successful Write leaves, at every
\* key k (physically prefix || k), what the recorded operations applied in
\* their order leave, a later one on a key winning over an earlier one.
C15_BatchBuffered ==
    (batch.db # 0 /\ Open(batch.db)) =>
        LET i == batch.db
            w == WriteCall(batch, "nil")
            want == ApplyWrites(View(i), batch.issued)
        IN  /\ w.err = "nil" /\ w.commit
            /\ \A k \in Keys, got \in Gets(i) :
                   /\ HasCall(i, k, got, "nil").has = (k \in DOMAIN View(i))
                   /\ GetCall(i, k, got, "nil").val
                          = (IF k \in DOMAIN View(i) THEN View(i)[k] ELSE nil)
                   /\ StoreGet(w.phys, prefix(stores[i], k, got).key)
                          = StoreGet(want, k)

\* C15's case: a batch with two Puts of one key with different values has
\* been written, and the Database holds the second value.
C15_Witness ==
    /\ last = Ret("Write", "nil")
    /\ batch.db # 0 /\ Open(batch.db)
    /\ Len(batch.issued) = 2
    /\ batch.issued[1].key = batch.issued[2].key
    /\ ~batch.issued[1].delete /\ ~batch.issued[2].delete
    /\ batch.issued[1].value # batch.issued[2].value
    /\ batch.issued[1].key \in DOMAIN View(batch.db)
    /\ View(batch.db)[batch.issued[1].key] = batch.issued[2].value

\* C16: on an open Database, Has, Get, Put, Delete, Stat, Compact and batch
\* Write return the error of the call they delegate, that error and no
\* other, and success when it succeeds; the Database is open after a call
\* that returned the store's error.
C16_ErrorsForwarded ==
    /\ \A i \in StoreIds : Open(i) =>
           \A e \in StoreErrs :
               /\ StatCall(i, e).err = e
               /\ batch.db = i => WriteCall(batch, e).err = e
               /\ \A k \in Keys, got \in Gets(i) :
                      /\ HasCall(i, k, got, e).err = e
                      /\ e # "nil" => ~HasCall(i, k, got, e).has
                      /\ GetCall(i, k, got, e).err
                             = (IF e = "nil" THEN StoreGet(phys, prefix(stores[i], k, got).key).err
                                ELSE e)
                      /\ e # "nil" => GetCall(i, k, got, e).val = nil
                      /\ DeleteCall(i, k, got, e).err = e
                      /\ \A v \in Values : PutCall(i, k, v, got, e).err = e
                      /\ \A r \in Ranges :
                             \A c \in CompactCall(i, r[1], r[2], got, e) : c.err = e
    /\ (last.err = ErrIO /\ last.op \in {"Has", "Get", "Put", "Delete", "Write"}) =>
           \A i \in StoreIds : Open(i)

\* C16's case: a Write of a batch with recorded writes has returned the
\* store's error, and the store holds a key.
C16_Witness ==
    /\ last = Ret("Write", ErrIO)
    /\ batch.writes # << >>
    /\ phys # EmptyStore
    /\ Open(batch.db)

\* C17: on a closed Database Has, Get, Put, Delete, Stat, Compact, the
\* iterator factory and Close make no call to the underlying store: what
\* they return does not depend on what the store would answer, no buffer is
\* borrowed for a key, and the store's keys are as they were; the iterator
\* returned is a nodb.Iterator, which yields no entry and reports the closed
\* error.
C17_ClosedTouchesNothing ==
    /\ \A i \in StoreIds : ~Open(i) =>
           /\ ~CloseCall(i).closesInner /\ CloseCall(i).db = "nil"
           /\ \A e \in StoreErrs : StatCall(i, e) = StatCall(i, "nil")
           /\ \A k \in Keys, got \in Gets(i), e \in StoreErrs :
                  /\ HasCall(i, k, got, e) = HasCall(i, k, got, "nil")
                  /\ HasCall(i, k, got, e).pool = stores[i].bufferPool
                  /\ GetCall(i, k, got, e) = GetCall(i, k, got, "nil")
                  /\ GetCall(i, k, got, e).pool = stores[i].bufferPool
                  /\ DeleteCall(i, k, got, e).phys = phys
                  /\ DeleteCall(i, k, got, e).pool = stores[i].bufferPool
                  /\ DeleteCall(i, k, got, e).err = ErrClosed
                  /\ \A v \in Values :
                         /\ PutCall(i, k, v, got, e).phys = phys
                         /\ PutCall(i, k, v, got, e).pool = stores[i].bufferPool
                         /\ PutCall(i, k, v, got, e).err = ErrClosed
           /\ \A r \in Ranges, got \in Gets(i) :
                  /\ \A e \in StoreErrs :
                         CompactCall(i, r[1], r[2], got, e)
                             = { [err |-> ErrClosed, pool |-> stores[i].bufferPool] }
                  /\ \A c \in NewIteratorCall(i, r[1], r[2], got) :
                         /\ c.pool = stores[i].bufferPool
                         /\ c.iter.kind = "nodb"
                         /\ Yielded(c.iter) = << >>
                         /\ IterError(c.iter) = ErrClosed
    /\ iter.kind = "nodb" =>
           /\ ~InnerValid(iter)
           /\ Key(iter) = nil /\ InnerValue(iter) = nil
           /\ IterError(iter) = ErrClosed

\* C17's case: an iterator made on a closed Database whose store holds a
\* key has been advanced.
C17_Witness ==
    /\ last = Ret("Next", "nil")
    /\ iter.kind = "nodb"
    /\ ~Open(iter.db)
    /\ phys # EmptyStore

\* C18: every buffer in a Database's pool has length zero, whatever calls
\* were made and however long their keys; and prefix, given a pooled buffer
\* too small for the prefixed key, puts that buffer back as it is and uses a
\* new one of exactly len(dbPrefix) + len(key) bytes, and given one that is
\* large enough uses it.
C18_PooledBuffersEmpty ==
    \A i \in StoreIds :
        /\ \A b \in stores[i].bufferPool : b.len = 0
        /\ \A k \in PoolKeys, got \in Gets(i) :
               LET p == prefix(stores[i], k, got)
                   keyLen == Len(stores[i].dbPrefix) + Len(k)
               IN  /\ Len(p.key) = keyLen
                   /\ got.buf.len = 0
                   /\ IF got.buf.cap < keyLen
                      THEN p.cap = keyLen /\ p.pool = got.pool \cup {got.buf}
                      ELSE p.cap = got.buf.cap /\ p.pool = got.pool
                   /\ \A b \in PoolPut(p.pool, p.cap) : b.len = 0

\* C18's case: the pool holds a buffer made for a key one byte longer than
\* the default capacity and one made for a key two bytes longer, after a
\* Delete of the longer key.
C18_Witness ==
    /\ last = Ret("Delete", "nil")
    /\ \E i \in StoreIds :
           /\ [len |-> 0, cap |-> defaultBufCap + 1] \in stores[i].bufferPool
           /\ [len |-> 0, cap |-> defaultBufCap + 2] \in stores[i].bufferPool

\* What the point operations of Database i return when the underlying store
\* answers: success from Has, Put and Delete, and from Get the value held or
\* the store's not-found error.
PointSucceeds(i) ==
    \A k \in Keys, got \in Gets(i) :
        /\ HasCall(i, k, got, "nil").err = "nil"
        /\ GetCall(i, k, got, "nil").err
               = (IF k \in DOMAIN View(i) THEN "nil" ELSE ErrNotFound)
        /\ DeleteCall(i, k, got, "nil").err = "nil"
        /\ \A v \in Values : PutCall(i, k, v, got, "nil").err = "nil"

\* The closed error from every point operation of Database i.
PointClosed(i) ==
    \A k \in Keys, got \in Gets(i), e \in StoreErrs :
        /\ HasCall(i, k, got, e).err = ErrClosed
        /\ GetCall(i, k, got, e).err = ErrClosed
        /\ DeleteCall(i, k, got, e).err = ErrClosed
        /\ \A v \in Values : PutCall(i, k, v, got, e).err = ErrClosed

\* C19: a Close that closes one Database leaves every other Database as it
\* was, the one it was built over and those built over it; a Database built
\* with New over a Database P holds what P held as its underlying store at
\* that moment, so it is open exactly if P was, and built over a closed P it
\* returns the closed error from every point operation; and an open Database
\* built over another keeps succeeding in Has, Get, Put and Delete whatever
\* becomes of the other.
C19_IndependentLifecycles ==
    /\ [](\A c \in StoreIds :
              (origin[c].outer > 0 /\ Open(c)) => PointSucceeds(c))
    /\ [][/\ \A i \in StoreIds : (Open(i) /\ ~Open(i)') =>
                 \A j \in StoreIds \ {i} : stores'[j] = stores[j]
          /\ \A c \in StoreIds' \ StoreIds :
                 LET t == origin'[c].outer
                 IN  t > 0 =>
                         /\ stores'[c].db = stores[t].db
                         /\ Open(c)' = Open(t)
                         /\ stores'[t] = stores[t]
                         /\ ~Open(t) => PointClosed(c)']_vars

\* C19's case: the Database P is closed by the Close that has just returned,
\* and the Database built over it while it was open is open and holds a key.
C19_Witness ==
    /\ last = Ret("Close", "nil")
    /\ \E c \in StoreIds :
           /\ origin[c].outer > 0
           /\ Open(c)
           /\ ~Open(origin[c].outer)
           /\ View(c) # EmptyStore

\* C20: with a core state-sync VM, SetSyncableStateSummaries returns nil
\* only if every accepted summary was parsed and indexed, the commit of the
\* height index succeeded, and the core VM's SetSyncableStateSummaries was
\* called with the core summaries and returned nil.
C20_SuccessMeansHanded ==
    (last.op = "SetSyncableStateSummaries" /\ vm.core /\ vm.ret = "nil") =>
        /\ vm.parsed = Len(vm.accepted)
        /\ vm.indexed = Len(vm.accepted)
        /\ vm.committed
        /\ vm.pending = {}
        /\ vm.handed
        /\ vm.summaries = [n \in 1..Len(vm.accepted) |-> vm.accepted[n].key]

====
